---- MODULE Spec2Model ----
(***************************************************************************)
(* Model of src/app.py: one run of main().  The run loads the yearly CSV   *)
(* (load_data), computes the global normalisation maximum, takes the year  *)
(* chosen in the selectbox, filters the table to that year and builds the  *)
(* agraph node and edge lists in two passes (A: core nodes, B: satellite   *)
(* nodes and edges) before handing them to agraph().                       *)
(*                                                                         *)
(* Python values are modelled as follows.                                  *)
(*   - str ids and categories are TLA+ strings; "" is the empty string.    *)
(*   - None is the string PyNone, which no id of the data sets uses.       *)
(*   - display_name is a sequence of words; `needle in name` is containment*)
(*     of a contiguous run of words.                                       *)
(*   - a float is an exact fraction [num, den]; NaN is [num 0, den 0].     *)
(*   - an uncaught exception ends the run with `raised` set to its name.   *)
(***************************************************************************)
EXTENDS Integers, Sequences, FiniteSets

\* ------------------------------------------------------------------ bounds

\* Largest number of rows of the CSV.
MaxRows == 2

\* Largest works_count of a row.
MaxWorks == 2

\* ------------------------------------------------------- program constants

COLOR_MAP ==
    [c \in {"Natural Language Processing", "Computer Vision", "Graph & Network",
            "Machine Learning", "Robotics & Control", "AI in Healthcare",
            "Explainable & Trustworthy AI", "Optimization & Theory"} |->
        CASE c = "Natural Language Processing"  -> "#00D084"
          [] c = "Computer Vision"              -> "#FF6B6B"
          [] c = "Graph & Network"              -> "#4ECDC4"
          [] c = "Machine Learning"             -> "#A78BFA"
          [] c = "Robotics & Control"           -> "#FF9F40"
          [] c = "AI in Healthcare"             -> "#FF6EC7"
          [] c = "Explainable & Trustworthy AI" -> "#FFD93D"
          [] c = "Optimization & Theory"        -> "#8D99AE"]

DEFAULT_COLOR == "#CCCCCC"

MIN_NODE_SIZE == 10

MAX_NODE_SIZE == 60

\* global_max when the table has no rows.
EMPTY_GLOBAL_MAX == 1000

\* The literal of the pass A name test.
EXCLUDED_NAME == <<"Computer", "Science", "and", "Engineering">>

\* Size, colour and tooltip literals of a satellite node.
SATELLITE_SIZE == 10

SATELLITE_COLOR == "#555555"

SATELLITE_TITLE == "Related Concept"

\* ------------------------------------------------------------ Python values

PyNone == "<None>"

\* bool(x) that only None fails.
TruthyNotNone(x) == x # PyNone

\* bool(x) of a str or None.
Truthy(x) == x # "" /\ x # PyNone

\* d.get(key, default) of a decoded JSON object; d.keys are the keys it has.
DictGet(d, key, default) == IF key \in d.keys THEN d[key] ELSE default

\* needle in hay, on word sequences.
Contains(hay, needle) ==
    \E k \in 0..(Len(hay) - Len(needle)) :
        SubSeq(hay, k + 1, k + Len(needle)) = needle

\* A float as an exact fraction; the denominator of a number is positive.
Float(n, d) == [num |-> n, den |-> d]

NaN == Float(0, 0)

IsNaN(x) == x.den = 0

\* x == y and x >= y of floats: every comparison with NaN is false.
FloatEq(x, y) == ~IsNaN(x) /\ ~IsNaN(y) /\ x.num * y.den = y.num * x.den

FloatGeq(x, y) == ~IsNaN(x) /\ ~IsNaN(y) /\ x.num * y.den >= y.num * x.den

\* val / global_max of numpy scalars: 0 / 0 is nan (a RuntimeWarning, no
\* exception); works_count is never above global_max, so x / 0 has x = 0.
TrueDiv(val, gm) == IF gm = 0 THEN NaN ELSE Float(val, gm)

\* The size formula with the quotient subtracted from the largest size.
NodeSizeInverted(val, gm) ==
    LET q == TrueDiv(val, gm)
    IN  IF IsNaN(q) THEN NaN
        ELSE Float(MAX_NODE_SIZE * q.den - q.num * (MAX_NODE_SIZE - MIN_NODE_SIZE),
                   q.den)

\* MIN_NODE_SIZE + q * (MAX_NODE_SIZE - MIN_NODE_SIZE) for the quotient q.
NodeSize(val, gm) ==
    LET q == TrueDiv(val, gm)
    IN  IF IsNaN(q) THEN NaN
        ELSE Float(MIN_NODE_SIZE * q.den + q.num * (MAX_NODE_SIZE - MIN_NODE_SIZE),
                   q.den)

\* ------------------------------------------------------------- input data

Ids == {"a", "b"}

Years == {2024, 2025}

PlainName == <<"Computer", "Vision">>

HubName == <<"School", "of", "Computer", "Science", "and", "Engineering">>

\* Entries of a related_concepts JSON array.

\* A bare identifier (a JSON string, or null for PyNone); id is the value.
Bare(v) == [kind |-> "scalar", keys |-> {}, id |-> v, display_name |-> <<>>, category |-> ""]

\* A JSON object with the keys `keys`; the fields of other keys are unused.
Obj(keys, id, name, cat) ==
    [kind |-> "dict", keys |-> keys, id |-> id, display_name |-> name, category |-> cat]

\* A non-empty JSON array nested in the related list; id stands for the list.
NestedList ==
    [kind |-> "list", keys |-> {}, id |-> "<list>", display_name |-> <<>>, category |-> ""]

\* The related_concepts cell of a CSV row.
NaCell == [kind |-> "nan", items |-> <<>>]

InvalidCell == [kind |-> "invalid", items |-> <<>>]

NumberCell == [kind |-> "number", items |-> <<>>]

ArrayCell(items) == [kind |-> "array", items |-> items]

CsvRow(id, name, cat, works, year, cell) ==
    [id |-> id, display_name |-> name, category |-> cat, works_count |-> works,
     year |-> year, related_concepts |-> cell]

\* Rows without related concepts, of every id, works_count and year.
SizedRows ==
    { CsvRow(id, PlainName, "Machine Learning", w, y, NaCell) :
        id \in Ids, w \in 0..MaxWorks, y \in Years }

\* Well-formed related lists: a bare id that may be a row's id, and a structured
\* reference to a concept that is never a row.
LinkCells ==
    LET b == Bare("b")
        c == Obj({"id", "display_name", "category"}, "c", <<"Foo">>, "Computer Vision")
    IN  { ArrayCell(<<b>>), ArrayCell(<<c>>), ArrayCell(<<b, b>>), ArrayCell(<<c, b>>) }

\* Rows with related concepts, with and without the excluded name.
LinkedRows ==
    { CsvRow(id, name, "Quantum Computing", 1, 2025, cell) :
        id \in Ids, name \in {PlainName, HubName}, cell \in LinkCells }

\* Related lists with an empty, missing or malformed entry, and cells that are
\* no JSON array.
OddCells ==
    { InvalidCell, NumberCell,
      ArrayCell(<<Bare(""), Bare("b")>>),
      ArrayCell(<<Obj({"display_name"}, "", <<"Foo">>, ""), Bare(PyNone)>>),
      ArrayCell(<<Obj({"id", "category"}, "", <<>>, "Computer Vision"), Bare("b")>>),
      ArrayCell(<<Obj({"id"}, "c", <<>>, ""), NestedList>>),
      ArrayCell(<<NestedList, Bare("b")>>) }

OddRows == { CsvRow("a", PlainName, "Machine Learning", 1, 2025, cell) : cell \in OddCells }

Rows == SizedRows \cup LinkedRows \cup OddRows

Tables == UNION { [1..n -> Rows] : n \in 0..MaxRows }

\* ------------------------------------------------------------------ state

VARIABLES
    fileExists,      \* ai_yearly_data.csv is in the directory
    csv,             \* the rows of the file
    pc,              \* position in main()
    df,              \* the DataFrame of load_data
    global_max,      \* df['works_count'].max(), or 1000
    year,            \* the selectbox value
    df_year,         \* df[df['year'] == year]
    nodes,           \* list of Node
    edges,           \* list of Edge
    added_node_ids,  \* set of ids
    i,               \* row of the running loop (1-based)
    j,               \* entry of the row's related_list (1-based)
    notice,          \* the st.error / st.warning shown, or "none"
    raised,          \* the uncaught exception, or "none"
    agraph_calls     \* number of agraph() calls

vars == <<fileExists, csv, pc, df, global_max, year, df_year, nodes, edges,
          added_node_ids, i, j, notice, raised, agraph_calls>>

Init ==
    /\ fileExists \in BOOLEAN
    /\ csv \in (IF fileExists THEN Tables ELSE {<<>>})
    /\ pc = "load"
    /\ df = <<>>
    /\ global_max = 0
    /\ year = 0
    /\ df_year = <<>>
    /\ nodes = <<>>
    /\ edges = <<>>
    /\ added_node_ids = {}
    /\ i = 0
    /\ j = 0
    /\ notice = "none"
    /\ raised = "none"
    /\ agraph_calls = 0

\* ------------------------------------------------------------- load_data

\* json.loads(x) of a cell that is not NaN; the cell is not "invalid".
JsonLoads(cell) ==
    IF cell.kind = "array" THEN [type |-> "list", items |-> cell.items]
    ELSE [type |-> "int", items |-> <<>>]

\* lambda x: json.loads(x) if pd.notna(x) else []
RelatedList(cell) ==
    IF cell.kind = "nan" THEN [type |-> "list", items |-> <<>>] ELSE JsonLoads(cell)

DfRow(r) ==
    [id |-> r.id, display_name |-> r.display_name, category |-> r.category,
     works_count |-> r.works_count, year |-> r.year,
     related_list |-> RelatedList(r.related_concepts)]

load_data(rows) == [k \in 1..Len(rows) |-> DfRow(rows[k])]

Decodable(rows) == \A k \in 1..Len(rows) : rows[k].related_concepts.kind # "invalid"

SeqMax(S) == CHOOSE m \in S : \A x \in S : x <= m

\* df['works_count'].max() if not df.empty else 1000
GlobalMax(d) ==
    IF Len(d) = 0 THEN EMPTY_GLOBAL_MAX
    ELSE SeqMax({ d[k].works_count : k \in 1..Len(d) })

\* FileNotFoundError: st.error and return.
LoadMissing ==
    /\ pc = "load"
    /\ ~fileExists
    /\ notice' = "error"
    /\ pc' = "done"
    /\ UNCHANGED <<fileExists, csv, df, global_max, year, df_year, nodes, edges,
                   added_node_ids, i, j, raised, agraph_calls>>

\* json.loads raises on a cell that is no JSON text; main() does not catch it.
LoadDecodeError ==
    /\ pc = "load"
    /\ fileExists
    /\ ~Decodable(csv)
    /\ raised' = "JSONDecodeError"
    /\ pc' = "done"
    /\ UNCHANGED <<fileExists, csv, df, global_max, year, df_year, nodes, edges,
                   added_node_ids, i, j, notice, agraph_calls>>

LoadData ==
    /\ pc = "load"
    /\ fileExists
    /\ Decodable(csv)
    /\ df' = load_data(csv)
    /\ global_max' = GlobalMax(df')
    /\ pc' = "select"
    /\ UNCHANGED <<fileExists, csv, year, df_year, nodes, edges,
                   added_node_ids, i, j, notice, raised, agraph_calls>>

\* ------------------------------------------------------------ year filter

FilterYear(d, y) == SelectSeq(d, LAMBDA r : r.year = y)

\* The empty check without its return: the run goes on to agraph().
SelectYearEmptyNoReturn(y) ==
    /\ pc = "select"
    /\ FilterYear(df, y) = <<>>
    /\ year' = y
    /\ df_year' = <<>>
    /\ notice' = "warning"
    /\ pc' = "render"
    /\ UNCHANGED <<fileExists, csv, df, global_max, nodes, edges,
                   added_node_ids, i, j, raised, agraph_calls>>

\* df_year.empty: st.warning and return.
SelectYearEmpty(y) ==
    /\ pc = "select"
    /\ FilterYear(df, y) = <<>>
    /\ year' = y
    /\ df_year' = <<>>
    /\ notice' = "warning"
    /\ pc' = "done"
    /\ UNCHANGED <<fileExists, csv, df, global_max, nodes, edges,
                   added_node_ids, i, j, raised, agraph_calls>>

SelectYear(y) ==
    /\ pc = "select"
    /\ FilterYear(df, y) # <<>>
    /\ year' = y
    /\ df_year' = FilterYear(df, y)
    /\ nodes' = <<>>
    /\ edges' = <<>>
    /\ added_node_ids' = {}
    /\ i' = 1
    /\ pc' = "passA"
    /\ UNCHANGED <<fileExists, csv, df, global_max, j, notice, raised, agraph_calls>>

\* ------------------------------------------------- pass A: core nodes

\* COLOR_MAP.get(category, DEFAULT_COLOR)
ColorOf(category) ==
    IF category \in DOMAIN COLOR_MAP THEN COLOR_MAP[category] ELSE DEFAULT_COLOR

\* "Computer Science and Engineering" in row['display_name']
Excluded(row) == Contains(row.display_name, EXCLUDED_NAME)

\* The f-string "Node: {name}\nCat: {category}\nWorks: {val}".
NodeTitle(row) ==
    [head |-> "Node", name |-> row.display_name, cat |-> row.category,
     works |-> row.works_count]

PrimaryNode(row, gm) ==
    [id |-> row.id, label |-> row.display_name,
     size |-> NodeSize(row.works_count, gm), shape |-> "dot",
     color |-> ColorOf(row.category), title |-> NodeTitle(row)]

\* The end of an iteration of loop A: the next row, or loop B from its first row.
NextRowA ==
    IF i < Len(df_year)
    THEN /\ i' = i + 1
         /\ UNCHANGED <<pc, j>>
    ELSE /\ i' = 1
         /\ j' = 1
         /\ pc' = "passB"

\* continue: the row is the super node.
PassASkip ==
    /\ pc = "passA"
    /\ Excluded(df_year[i])
    /\ NextRowA
    /\ UNCHANGED <<fileExists, csv, df, global_max, year, df_year, nodes, edges,
                   added_node_ids, notice, raised, agraph_calls>>

PassAAdd ==
    /\ pc = "passA"
    /\ ~Excluded(df_year[i])
    /\ nodes' = Append(nodes, PrimaryNode(df_year[i], global_max))
    /\ added_node_ids' = added_node_ids \cup {df_year[i].id}
    /\ NextRowA
    /\ UNCHANGED <<fileExists, csv, df, global_max, year, df_year, edges,
                   notice, raised, agraph_calls>>

\* -------------------------------------- pass B: satellite nodes and edges

\* target, target_name, target_cat of an entry; a nested list is its own target,
\* truthy and unhashable.
Resolve(sibling) ==
    IF sibling.kind = "dict"
    THEN [target |-> DictGet(sibling, "id", PyNone),
          target_name |-> DictGet(sibling, "display_name", <<"Unknown">>),
          target_cat |-> DictGet(sibling, "category", "Other"),
          hashable |-> TRUE]
    ELSE [target |-> sibling.id,
          target_name |-> <<"Unknown">>,
          target_cat |-> "Other",
          hashable |-> sibling.kind # "list"]

SatelliteTitle == [head |-> SATELLITE_TITLE, name |-> <<>>, cat |-> "", works |-> 0]

\* A satellite coloured by the category of its reference.
SatelliteNodeByCategory(r) ==
    [id |-> r.target, label |-> r.target_name,
     size |-> Float(SATELLITE_SIZE, 1), shape |-> "dot",
     color |-> ColorOf(r.target_cat), title |-> SatelliteTitle]

SatelliteNode(r) ==
    [id |-> r.target, label |-> r.target_name,
     size |-> Float(SATELLITE_SIZE, 1), shape |-> "dot",
     color |-> SATELLITE_COLOR, title |-> SatelliteTitle]

NewEdge(source, target) ==
    [source |-> source, target |-> target, color |-> "#555555", width |-> 1]

RelatedOf(row) == row.related_list

\* for sibling in related_list, when related_list is no list: TypeError.
PassBNotIterable ==
    /\ pc = "passB"
    /\ RelatedOf(df_year[i]).type # "list"
    /\ raised' = "TypeError"
    /\ pc' = "done"
    /\ UNCHANGED <<fileExists, csv, df, global_max, year, df_year, nodes, edges,
                   added_node_ids, i, j, notice, agraph_calls>>

\* The related list of the row is exhausted: the next row, or the end of loop B.
PassBNextRow ==
    /\ pc = "passB"
    /\ RelatedOf(df_year[i]).type = "list"
    /\ j > Len(RelatedOf(df_year[i]).items)
    /\ IF i < Len(df_year)
       THEN /\ i' = i + 1
            /\ j' = 1
            /\ pc' = pc
       ELSE /\ pc' = "render"
            /\ UNCHANGED <<i, j>>
    /\ UNCHANGED <<fileExists, csv, df, global_max, year, df_year, nodes, edges,
                   added_node_ids, notice, raised, agraph_calls>>

AtEntry ==
    /\ pc = "passB"
    /\ RelatedOf(df_year[i]).type = "list"
    /\ j <= Len(RelatedOf(df_year[i]).items)

Sibling == RelatedOf(df_year[i]).items[j]

\* if not target: continue
PassBSkip ==
    /\ AtEntry
    /\ ~Truthy(Resolve(Sibling).target)
    /\ j' = j + 1
    /\ UNCHANGED <<fileExists, csv, pc, df, global_max, year, df_year, nodes, edges,
                   added_node_ids, i, notice, raised, agraph_calls>>

\* target not in added_node_ids, for a list: TypeError (unhashable type).
PassBUnhashable ==
    /\ AtEntry
    /\ Truthy(Resolve(Sibling).target)
    /\ ~Resolve(Sibling).hashable
    /\ raised' = "TypeError"
    /\ pc' = "done"
    /\ UNCHANGED <<fileExists, csv, df, global_max, year, df_year, nodes, edges,
                   added_node_ids, i, j, notice, agraph_calls>>

\* A new target: the satellite node, then the edge.
PassBSatellite ==
    /\ AtEntry
    /\ LET r == Resolve(Sibling)
       IN  /\ Truthy(r.target)
           /\ r.hashable
           /\ r.target \notin added_node_ids
           /\ nodes' = Append(nodes, SatelliteNode(r))
           /\ added_node_ids' = added_node_ids \cup {r.target}
           /\ edges' = Append(edges, NewEdge(df_year[i].id, r.target))
    /\ j' = j + 1
    /\ UNCHANGED <<fileExists, csv, pc, df, global_max, year, df_year,
                   i, notice, raised, agraph_calls>>

\* The edge append guarded by the seen set like the node.
PassBEdgeDeduplicated ==
    /\ AtEntry
    /\ LET r == Resolve(Sibling)
       IN  /\ Truthy(r.target)
           /\ r.hashable
           /\ r.target \in added_node_ids
    /\ j' = j + 1
    /\ UNCHANGED <<fileExists, csv, pc, df, global_max, year, df_year, nodes, edges,
                   added_node_ids, i, notice, raised, agraph_calls>>

\* A target that is already a node: the edge alone.
PassBEdge ==
    /\ AtEntry
    /\ LET r == Resolve(Sibling)
       IN  /\ Truthy(r.target)
           /\ r.hashable
           /\ r.target \in added_node_ids
           /\ edges' = Append(edges, NewEdge(df_year[i].id, r.target))
    /\ j' = j + 1
    /\ UNCHANGED <<fileExists, csv, pc, df, global_max, year, df_year, nodes,
                   added_node_ids, i, notice, raised, agraph_calls>>

\* ---------------------------------------------------------------- render

Render ==
    /\ pc = "render"
    /\ agraph_calls' = agraph_calls + 1
    /\ pc' = "done"
    /\ UNCHANGED <<fileExists, csv, df, global_max, year, df_year, nodes, edges,
                   added_node_ids, i, j, notice, raised>>

Next ==
    \/ LoadMissing
    \/ LoadDecodeError
    \/ LoadData
    \/ \E y \in Years : SelectYearEmpty(y)
    \/ \E y \in Years : SelectYear(y)
    \/ PassASkip
    \/ PassAAdd
    \/ PassBNotIterable
    \/ PassBNextRow
    \/ PassBSkip
    \/ PassBUnhashable
    \/ PassBSatellite
    \/ PassBEdge
    \/ Render

Spec == Init /\ [][Next]_vars

\* ---------------------------------------------------- vocabulary of the claims

\* Both loops ran to their end: the lists are the ones agraph() gets.
BuildComplete == pc = "render" \/ (pc = "done" /\ agraph_calls = 1)

\* Loop A ran to its end.
AfterPassA == pc \in {"passB", "render"} \/ (pc = "done" /\ df_year # <<>>)

NodeIdSet == { nodes[k].id : k \in 1..Len(nodes) }

\* The rows of the partition that loop A turns into nodes, in row order: node k
\* of the list is made from row k of these, and the nodes after them are the
\* satellites of loop B.
PrimaryRows == SelectSeq(df_year, LAMBDA r : ~Contains(r.display_name, EXCLUDED_NAME))

PrimaryIndexes == IF AfterPassA THEN 1..Len(PrimaryRows) ELSE 1..Len(nodes)

SatelliteIndexes == IF AfterPassA THEN (Len(PrimaryRows) + 1)..Len(nodes) ELSE {}

\* An empty or missing id: "" or None.
EmptyId(x) == x = "" \/ x = PyNone

\* The id an entry refers to: the 'id' of an object (None when it has none), the
\* entry itself when it is a bare identifier.
EntryId(e) ==
    IF e.kind = "dict" THEN (IF "id" \in e.keys THEN e.id ELSE PyNone) ELSE e.id

\* The entries of the related_concepts array of a row of the file.
CsvEntries(r) == r.related_concepts.items

CsvPartition == SelectSeq(csv, LAMBDA r : r.year = year)

CsvExcluded(r) == Contains(r.display_name, EXCLUDED_NAME)

\* ------------------------------------------------------------------- C1

\* C1: after a build, the source and the target of every edge are ids of nodes
\* of the node list (no dangling edge).
C1_NoDanglingEdges ==
    BuildComplete =>
        \A k \in 1..Len(edges) :
            edges[k].source \in NodeIdSet /\ edges[k].target \in NodeIdSet

\* ------------------------------------------------------------------- C2

\* C2: after a build, the ids of the nodes of the node list are pairwise
\* distinct.
C2_NodeIdsDistinct ==
    BuildComplete =>
        \A k, l \in 1..Len(nodes) : k # l => nodes[k].id # nodes[l].id

\* ------------------------------------------------------------------- C3

\* A row of the partition without the excluded name refers to the id x.
ReferencedByIncluded(x) ==
    \E k \in 1..Len(CsvPartition) :
        /\ ~CsvExcluded(CsvPartition[k])
        /\ \E m \in 1..Len(CsvEntries(CsvPartition[k])) :
               EntryId(CsvEntries(CsvPartition[k])[m]) = x

\* C3: a row of the selected year with the excluded name gives no edge with its
\* id as source (unless a row without the excluded name has the same id), and
\* every satellite node is referred to by a row without the excluded name.
C3_ExcludedContributesNothing ==
    BuildComplete =>
        /\ \A k \in 1..Len(CsvPartition) :
               ( /\ CsvExcluded(CsvPartition[k])
                 /\ \A l \in 1..Len(CsvPartition) :
                        CsvPartition[l].id = CsvPartition[k].id
                            => CsvExcluded(CsvPartition[l]) )
               => \A e \in 1..Len(edges) : edges[e].source # CsvPartition[k].id
        /\ \A n \in SatelliteIndexes : ReferencedByIncluded(nodes[n].id)

\* ------------------------------------------------------------------- C4

\* The largest works_count of the file; 0 for a file without rows.
CsvMaxWorks ==
    IF Len(csv) = 0 THEN 0
    ELSE CHOOSE m \in { csv[k].works_count : k \in 1..Len(csv) } :
             \A k \in 1..Len(csv) : csv[k].works_count <= m

\* C4: when the largest works_count of the table is zero, the build completes
\* with every primary node at the minimum node size.
C4_ZeroMaxGivesMinSize ==
    (BuildComplete /\ CsvMaxWorks = 0) =>
        \A k \in PrimaryIndexes :
            FloatEq(nodes[k].size, Float(MIN_NODE_SIZE, 1))

\* ------------------------------------------------------------------- C5

\* No satellite node has an empty id and no edge an empty target.
C5_NoEmptyIds ==
    /\ \A n \in SatelliteIndexes : ~EmptyId(nodes[n].id)
    /\ \A e \in 1..Len(edges) : ~EmptyId(edges[e].target)

\* The step of loop B at an entry of empty target id changes neither list,
\* raises nothing and moves to the next entry.
C5_EmptyEntryStep ==
    ( /\ pc = "passB"
      /\ df_year[i].related_list.type = "list"
      /\ j <= Len(df_year[i].related_list.items)
      /\ EmptyId(EntryId(df_year[i].related_list.items[j])) )
    => (nodes' = nodes /\ edges' = edges /\ raised' = "none" /\ j' = j + 1)

\* C5: the step of loop B on a related entry whose target id is empty or missing
\* adds no node and no edge and goes on to the next entry; no satellite node has
\* an empty id and no edge an empty target.
C5_EmptyTargetSkipped == [](C5_NoEmptyIds) /\ [][C5_EmptyEntryStep]_vars

\* A complete build of a partition with an entry of empty target id, and edges.
C5_Witness ==
    /\ BuildComplete
    /\ Len(edges) > 0
    /\ \E k \in 1..Len(CsvPartition) :
           \E m \in 1..Len(CsvEntries(CsvPartition[k])) :
               EmptyId(EntryId(CsvEntries(CsvPartition[k])[m]))

\* ------------------------------------------------------------------- C6

\* C6: once the table is loaded and the year chosen, no malformed related entry
\* or related_concepts value makes the build raise.
C6_BuildNeverRaises == year # 0 => raised = "none"

\* ------------------------------------------------------------------- C7

\* C7: the size of a primary node is MIN + (works_count / M) * (MAX - MIN) with
\* M the largest works_count of the whole file, and of two primary nodes the one
\* with the larger works_count is not the smaller.
C7_SizeMonotone ==
    AfterPassA =>
        /\ \A k \in PrimaryIndexes :
               CsvMaxWorks # 0 =>
                   nodes[k].size.num * CsvMaxWorks =
                       ( MIN_NODE_SIZE * CsvMaxWorks
                         + PrimaryRows[k].works_count * (MAX_NODE_SIZE - MIN_NODE_SIZE) )
                       * nodes[k].size.den
        /\ \A k, l \in PrimaryIndexes :
               PrimaryRows[k].works_count > PrimaryRows[l].works_count
                   => FloatGeq(nodes[k].size, nodes[l].size)

\* Two primary nodes of different works_count, the larger one strictly larger.
C7_Witness ==
    /\ BuildComplete
    /\ \E k, l \in PrimaryIndexes :
           /\ PrimaryRows[k].works_count > PrimaryRows[l].works_count
           /\ FloatGeq(nodes[k].size, nodes[l].size)
           /\ ~FloatEq(nodes[k].size, nodes[l].size)

\* ------------------------------------------------------------------- C8

\* C8: every satellite node has size 10, colour "#555555" and tooltip
\* "Related Concept".
C8_SatelliteFixedStyle ==
    \A n \in SatelliteIndexes :
        /\ FloatEq(nodes[n].size, Float(10, 1))
        /\ nodes[n].color = "#555555"
        /\ nodes[n].title.head = "Related Concept"

\* A complete build with a satellite made from a structured reference whose
\* category has a colour of its own, beside a primary node of another size.
C8_Witness ==
    /\ BuildComplete
    /\ \E n \in SatelliteIndexes :
           \E k \in 1..Len(CsvPartition) :
               \E m \in 1..Len(CsvEntries(CsvPartition[k])) :
                   LET e == CsvEntries(CsvPartition[k])[m]
                   IN  /\ e.kind = "dict"
                       /\ "category" \in e.keys
                       /\ e.category \in DOMAIN COLOR_MAP
                       /\ EntryId(e) = nodes[n].id
    /\ \E k \in PrimaryIndexes : ~FloatEq(nodes[k].size, Float(10, 1))

\* ------------------------------------------------------------------- C9

\* C9: when a year is chosen that no row of the table has, the run has ended
\* with the warning shown, no node, no edge, no exception and no agraph() call.
C9_EmptyPartition ==
    (year # 0 /\ CsvPartition = <<>>) =>
        /\ pc = "done"
        /\ notice = "warning"
        /\ raised = "none"
        /\ nodes = <<>>
        /\ edges = <<>>
        /\ agraph_calls = 0

\* The run ended on a table with rows, none of the chosen year.
C9_Witness ==
    /\ pc = "done"
    /\ year # 0
    /\ Len(csv) > 0
    /\ CsvPartition = <<>>
    /\ notice = "warning"

\* ------------------------------------------------------------------ C10

RECURSIVE EntryPairs(_, _)
\* One <<source, target>> per entry of non-empty target id, in list order.
EntryPairs(source, entries) ==
    IF entries = <<>> THEN <<>>
    ELSE LET rest == EntryPairs(source, Tail(entries))
         IN  IF EmptyId(EntryId(Head(entries))) THEN rest
             ELSE <<(<<source, EntryId(Head(entries))>>)>> \o rest

RECURSIVE RowPairs(_)
\* The pairs of the rows, in row order.
RowPairs(rows) ==
    IF rows = <<>> THEN <<>>
    ELSE EntryPairs(Head(rows).id, CsvEntries(Head(rows))) \o RowPairs(Tail(rows))

\* C10: the edge list of a complete build is, in row order and then list order,
\* one edge per related entry of non-empty target id of every row of the
\* selected year; nothing is dropped as a duplicate.
C10_EdgesNotDeduplicated ==
    BuildComplete =>
        [k \in 1..Len(edges) |-> <<edges[k].source, edges[k].target>>]
            = RowPairs(CsvPartition)

\* A complete build with two parallel edges.
C10_Witness ==
    /\ BuildComplete
    /\ \E k, l \in 1..Len(edges) :
           /\ k < l
           /\ edges[k].source = edges[l].source
           /\ edges[k].target = edges[l].target

====
